---------------------------- MODULE Spec2Model ----------------------------
(***************************************************************************)
(* img2xbin: main() of src/main.rs as a state machine.                     *)
(*                                                                         *)
(*   image::open -> quantize_image_16 (Palettes::new) -> break_into_chunks *)
(*   -> save_xbin (File::create, then seven write_all calls).              *)
(*                                                                         *)
(* Palette indices and positions inside a Vec are 0-based values, as in    *)
(* the source; TLA+ sequences are 1-based, so v[i] of the source is        *)
(* v[i + 1] here.                                                          *)
(***************************************************************************)
EXTENDS Integers, Sequences, FiniteSets, TLC

VARIABLES
    pc,        \* position in main(): "open", "quantized", "chunked", "writing", "done", "panicked"
    image,     \* [width, height] of the decoded image (image.dimensions())
    remapped,  \* [palette, indexes] returned by res.remapped(&mut image)
    palettes,  \* Palettes { vga, rgba }
    indexes,   \* the index buffer main() owns and break_into_chunks mutates
    chunks,    \* Vec<Chunk> returned by break_into_chunks
    file,      \* the output file: [exists, bytes]
    step       \* which write_all of save_xbin comes next (1..7)

vars == <<pc, image, remapped, palettes, indexes, chunks, file, step>>

-----------------------------------------------------------------------------
(* Bounds of the model *)

\* block entries of the exhaustively enumerated 8x1 images range over 0..MaxIndex
MaxIndex == 2
\* image heights of the pipeline runs range over 1..MaxHeight
MaxHeight == 2
\* strides of the generated input palettes and index patterns range over 0..MaxStride
MaxStride == 2
\* a failing write_all leaves at most MaxPartial bytes of its buffer in the file
MaxPartial == 1

-----------------------------------------------------------------------------
(* Program constants *)

ChunkLen == 8          \* chunks_exact_mut(8), image.width() / 8
PaletteLen == 16       \* while vga.len() < 16, (0..16), set_max_colors(16)
NumWrites == 7         \* the write_all calls of save_xbin

U8(n) == n % 256       \* arithmetic on u8 that wraps
U16(n) == n % 65536    \* `as u16`

Min(a, b) == IF a < b THEN a ELSE b

-----------------------------------------------------------------------------
(* Palettes::new *)

\* the scaling without .round(): `as u8` truncates
vga_channel_floor(channel) == (channel * 63) \div 255

\* (channel as f32 / 255.0 * 63.0).round() as u8: round half away from zero.
\* channel * 63 / 255 is never at distance < 1/170 from a half-integer, so the
\* f32 result rounds as the exact quotient does.

vga_channel(channel) == (2 * channel * 63 + 255) \div (2 * 255)

Black == [r |-> 0, g |-> 0, b |-> 0, a |-> 255]

vga_no_padding(rgba) ==
    [i \in 1..Len(rgba) |->
        [r |-> vga_channel(rgba[i].r),
         g |-> vga_channel(rgba[i].g),
         b |-> vga_channel(rgba[i].b),
         a |-> 255]]

\* the map/collect of lines 23-31, then `while vga.len() < 16 { vga.push(black) }`
vga_palette(rgba) ==
    LET scaled == vga_no_padding(rgba)
    IN  IF Len(scaled) < PaletteLen
        THEN scaled \o [i \in 1..(PaletteLen - Len(scaled)) |-> Black]
        ELSE scaled

rgba_palette(vga) ==
    [i \in 1..Len(vga) |->
        [r |-> U8(vga[i].r * 4),
         g |-> U8(vga[i].g * 4),
         b |-> U8(vga[i].b * 4),
         a |-> 255]]

Palettes_new(rgba) ==
    LET vga == vga_palette(rgba)
    IN  [vga |-> vga, rgba |-> rgba_palette(vga)]

-----------------------------------------------------------------------------
(* find_closest *)

\* oklab::srgb_to_oklab on the render colours the model's palettes produce
\* (channels 0, 128, 252), as <<L, a, b>> in units of 1/10000.  For every
\* target and every two candidates of this table the order of the squared
\* distances is the order of the exact ones.
OklabTable ==
    ( <<0, 0, 0>> :> <<0, 0, 0>>             @@ <<0, 0, 128>> :> <<2711, -195, -1869>>
   @@ <<0, 0, 252>> :> <<4480, -322, -3087>> @@ <<0, 128, 0>> :> <<5198, -1403, 1077>>
   @@ <<0, 128, 128>> :> <<5431, -896, -236>> @@ <<0, 128, 252>> :> <<6130, -511, -2007>>
   @@ <<0, 252, 0>> :> <<8587, -2318, 1779>> @@ <<0, 252, 128>> :> <<8675, -2029, 1104>>
   @@ <<0, 252, 252>> :> <<8973, -1481, -390>> @@ <<128, 0, 0>> :> <<3767, 1349, 755>>
   @@ <<128, 0, 128>> :> <<4209, 1647, -1015>> @@ <<128, 0, 252>> :> <<5275, 1203, -2645>>
   @@ <<128, 128, 0>> :> <<5807, -428, 1191>> @@ <<128, 128, 128>> :> <<5999, 0, 0>>
   @@ <<128, 128, 252>> :> <<6595, 321, -1769>> @@ <<128, 252, 0>> :> <<8833, -1870, 1825>>
   @@ <<128, 252, 128>> :> <<8917, -1597, 1174>> @@ <<128, 252, 252>> :> <<9201, -1073, -295>>
   @@ <<252, 0, 0>> :> <<6223, 2229, 1247>> @@ <<252, 0, 128>> :> <<6400, 2583, 89>>
   @@ <<252, 0, 252>> :> <<6954, 2721, -1676>> @@ <<252, 128, 0>> :> <<7278, 1085, 1476>>
   @@ <<252, 128, 128>> :> <<7404, 1411, 553>> @@ <<252, 128, 252>> :> <<7821, 1768, -1133>>
   @@ <<252, 252, 0>> :> <<9593, -707, 1968>> @@ <<252, 252, 128>> :> <<9665, -473, 1387>>
   @@ <<252, 252, 252>> :> <<9911, 0, 0>> )

srgb_to_oklab(color) == OklabTable[<<color.r, color.g, color.b>>]

\* (color.l - ok_rgba.l).powi(2) + (color.a - ok_rgba.a).powi(2) + (color.b - ok_rgba.b).powi(2)
distance(color, ok_rgba) ==
      (color[1] - ok_rgba[1]) * (color[1] - ok_rgba[1])
    + (color[2] - ok_rgba[2]) * (color[2] - ok_rgba[2])
    + (color[3] - ok_rgba[3]) * (color[3] - ok_rgba[3])

None == -1

RECURSIVE closest_loop(_, _, _, _, _)
\* the for loop of lines 106-114; `index` is the 0-based enumerate() index
closest_loop(ok_palette, ok_rgba, index, closest, closest_distance) ==
    IF index >= Len(ok_palette)
    THEN closest
    ELSE LET d == distance(ok_palette[index + 1], ok_rgba)
         IN  IF closest = None \/ d < closest_distance
             THEN closest_loop(ok_palette, ok_rgba, index + 1, index, d)
             ELSE closest_loop(ok_palette, ok_rgba, index + 1, closest, closest_distance)

\* returns the enumerate() index into `palette` (closest.expect("match"))
find_closest(rgba, palette) ==
    LET ok_palette == [i \in 1..Len(palette) |-> srgb_to_oklab(palette[i])]
        ok_rgba == srgb_to_oklab(rgba)
    IN  closest_loop(ok_palette, ok_rgba, 0, None, 0)

-----------------------------------------------------------------------------
(* break_into_chunks *)

\* score of palette index `index` in a chunk: lines 130-135
score(chunk, index) == Cardinality({i \in 1..Len(chunk) : chunk[i] = index})

\* scores of the palette indices that occur in the chunk only
scores_present(chunk) ==
    SelectSeq([i \in 1..PaletteLen |-> <<i - 1, score(chunk, i - 1)>>],
              LAMBDA entry : entry[2] > 0)

\* (0..16).map(|index| (index, score)).collect()
scores(chunk) == [i \in 1..PaletteLen |-> <<i - 1, score(chunk, i - 1)>>]

RECURSIVE insert_by_unstable(_, _)
\* a sort that puts an element before its equals
insert_by_unstable(sorted, item) ==
    IF sorted = <<>> THEN <<item>>
    ELSE IF Head(sorted)[2] > item[2]
         THEN <<Head(sorted)>> \o insert_by_unstable(Tail(sorted), item)
         ELSE <<item>> \o sorted

RECURSIVE insert_by(_, _)
\* insert `item` behind every element the comparator b.cmp(a) does not put after it
insert_by(sorted, item) ==
    IF sorted = <<>> THEN <<item>>
    ELSE IF Head(sorted)[2] >= item[2]
         THEN <<Head(sorted)>> \o insert_by(Tail(sorted), item)
         ELSE <<item>> \o sorted

RECURSIVE sort_by(_)
\* scores.sort_by(|(_, a), (_, b)| b.cmp(a)): stable, descending by score
sort_by(s) ==
    IF s = <<>> THEN <<>>
    ELSE insert_by(sort_by(SubSeq(s, 1, Len(s) - 1)), s[Len(s)])

\* scores.resize(2, (0, 0))
resize(s, n, value) ==
    IF Len(s) >= n THEN SubSeq(s, 1, n)
    ELSE s \o [i \in 1..(n - Len(s)) |-> value]

\* lines 128-141: the two palette indices kept for the chunk
common_indexes(chunk) ==
    LET sorted == resize(sort_by(scores(chunk)), 2, <<0, 0>>)
    IN  [i \in 1..Len(sorted) |-> sorted[i][1]]

contains(s, x) == \E i \in 1..Len(s) : s[i] = x

\* lines 142-151: the chunk after the iter_mut loop
reduce_chunk(pal, chunk, common) ==
    LET common_palette == [i \in 1..Len(common) |-> pal.rgba[common[i] + 1]]
    IN  [i \in 1..Len(chunk) |->
            IF ~contains(common, chunk[i])
            THEN find_closest(pal.rgba[chunk[i] + 1], common_palette)
            ELSE chunk[i]]

RECURSIVE fold_bits(_, _, _)
\* bitmask.fold(0, |acc, bit| (acc << 1) + bit) over u8
fold_bits(bits, i, acc) ==
    IF i > Len(bits) THEN acc
    ELSE fold_bits(bits, i + 1, U8(U8(acc * 2) + bits[i]))

\* lines 152-156
make_chunk(common, reduced) ==
    LET bg == common[1]
        fg == common[2]
        bitmask == [i \in 1..Len(reduced) |-> IF reduced[i] = bg THEN 0 ELSE 1]
    IN  [fg |-> fg, bg |-> bg, codepoint |-> fold_bits(bitmask, 1, 0)]

\* the closure of lines 127-157 on one slice: the Chunk it returns and the
\* slice as it leaves it
map_chunk(pal, chunk) ==
    LET finish(common) ==
            LET emit(reduced) == [chunk |-> make_chunk(common, reduced), slice |-> reduced]
            IN  emit(reduce_chunk(pal, chunk, common))
    IN  finish(common_indexes(chunk))

\* the k-th (1-based) slice of chunks_exact_mut(8)
chunk_at(buf, k) == SubSeq(buf, ChunkLen * (k - 1) + 1, ChunkLen * k)

\* chunks_exact_mut(8) hands out the whole slices only
num_chunks(buf) == Len(buf) \div ChunkLen

\* the index buffer after the closure ran on every whole slice; the remainder
\* chunks_exact_mut does not hand out is untouched
write_back(buf, mapped) ==
    [i \in 1..Len(buf) |->
        IF i <= ChunkLen * Len(mapped)
        THEN mapped[((i - 1) \div ChunkLen) + 1].slice[((i - 1) % ChunkLen) + 1]
        ELSE buf[i]]

\* break_into_chunks: the Vec<Chunk> it returns, and the index buffer as it leaves it
break_into_chunks(pal, buf) ==
    LET collect(mapped) ==
            [chunks |-> [k \in 1..Len(mapped) |-> mapped[k].chunk],
             indexes |-> write_back(buf, mapped)]
    IN  collect([k \in 1..num_chunks(buf) |-> map_chunk(pal, chunk_at(buf, k))])

-----------------------------------------------------------------------------
(* palette_to_bytes, chunks_to_bytes, save_xbin *)

RECURSIVE palette_to_bytes(_)
palette_to_bytes(palette) ==
    IF palette = <<>> THEN <<>>
    ELSE <<Head(palette).r, Head(palette).g, Head(palette).b>> \o palette_to_bytes(Tail(palette))

chunk_bytes_of(chunk) == <<chunk.codepoint, U8(U8(chunk.bg * 16) + chunk.fg)>>

chunks_to_bytes(cs) ==
    [i \in 1..(2 * Len(cs)) |-> chunk_bytes_of(cs[(i + 1) \div 2])[2 - (i % 2)]]

\* (x as u16).to_le_bytes()
to_le_bytes(x) == <<U16(x) % 256, U16(x) \div 256>>

Magic == <<88, 66, 73, 78, 26>>          \* b"XBIN\x1a"
Flags == <<1, 11>>                        \* b"\x01\x0b"
font_bytes == [i \in 1..256 |-> i - 1]    \* (0..=255).collect()

\* the buffer save_xbin hands to its n-th write_all, lines 187-195
save_xbin_write(n, img, palette, cs) ==
    CASE n = 1 -> Magic
      [] n = 2 -> to_le_bytes(img.width \div ChunkLen)
      [] n = 3 -> to_le_bytes(img.height)
      [] n = 4 -> Flags
      [] n = 5 -> palette_to_bytes(palette)
      [] n = 6 -> font_bytes
      [] n = 7 -> chunks_to_bytes(cs)

-----------------------------------------------------------------------------
(* Inputs: the decoded image and the quantizer's answer *)

Channels == <<0, 128, 255>>

\* the j-th colour (0-based) of the 27 colours with channels 0, 128, 255
Colour(j) ==
    [r |-> Channels[((j \div 9) % 3) + 1],
     g |-> Channels[((j \div 3) % 3) + 1],
     b |-> Channels[(j % 3) + 1],
     a |-> 255]

\* quantizer palettes of n colours: ascending from black, or descending from white
Ascending(n) == [i \in 1..n |-> Colour(i - 1)]
Descending(n) == [i \in 1..n |-> Colour(27 - i)]
TablePalettes(n) == {Ascending(n), Descending(n)}

NoFile == [exists |-> FALSE, bytes |-> <<>>]
NoPalettes == [vga |-> <<>>, rgba |-> <<>>]

Start(img, pal, idx) ==
    /\ pc = "open"
    /\ image = img
    /\ remapped = [palette |-> pal, indexes |-> idx]
    /\ palettes = NoPalettes
    /\ indexes = <<>>
    /\ chunks = <<>>
    /\ file = NoFile
    /\ step = 0

-----------------------------------------------------------------------------
(* Actions *)

\* main, line 201: quantize_image_16 (lines 71-72, 85)
MainQuantize ==
    /\ pc = "open"
    /\ palettes' = Palettes_new(remapped.palette)
    /\ indexes' = remapped.indexes
    /\ pc' = "quantized"
    /\ UNCHANGED <<image, remapped, chunks, file, step>>

\* main, line 202: break_into_chunks
MainBreak ==
    /\ pc = "quantized"
    /\ \E result \in {break_into_chunks(palettes, indexes)} :
          /\ chunks' = result.chunks
          /\ indexes' = result.indexes
    /\ pc' = "chunked"
    /\ UNCHANGED <<image, remapped, palettes, file, step>>

\* save_xbin, line 181: File::create(path).unwrap()
SaveCreate ==
    /\ pc = "chunked"
    /\ \/ /\ file' = [exists |-> TRUE, bytes |-> <<>>]
          /\ pc' = "writing"
          /\ step' = 1
       \/ /\ pc' = "panicked"
          /\ UNCHANGED <<file, step>>
    /\ UNCHANGED <<image, remapped, palettes, indexes, chunks>>

\* save_xbin, lines 187-195: one file.write_all(..).unwrap()
SaveWrite ==
    /\ pc = "writing"
    /\ \E buf \in {save_xbin_write(step, image, palettes.vga, chunks)} :
           \/ /\ file' = [file EXCEPT !.bytes = @ \o buf]
              /\ IF step < NumWrites
                 THEN pc' = "writing" /\ step' = step + 1
                 ELSE pc' = "done" /\ step' = step
           \/ /\ \E k \in 0..Min(Len(buf) - 1, MaxPartial) :
                    file' = [file EXCEPT !.bytes = @ \o SubSeq(buf, 1, k)]
              /\ pc' = "panicked"
              /\ step' = step
    /\ UNCHANGED <<image, remapped, palettes, indexes, chunks>>

-----------------------------------------------------------------------------
(* Specifications *)

\* index buffers of length n over a palette of `colours` entries: offset, offset + stride, ...
Pattern(n, colours, offset, stride) ==
    [i \in 1..n |-> (offset + stride * (i - 1)) % colours]

Widths == {ChunkLen, ChunkLen + 4, 2 * ChunkLen}

\* the whole run of main() on small images, widths that are no multiple of 8 included
Init ==
    \E w \in Widths, h \in 1..MaxHeight, n \in {3, PaletteLen} :
    \E pal \in TablePalettes(n), offset \in 0..MaxStride, stride \in 0..MaxStride :
        Start([width |-> w, height |-> h], pal, Pattern(w * h, n, offset, stride))

Next == MainQuantize \/ MainBreak \/ SaveCreate \/ SaveWrite

Spec == Init /\ [][Next]_vars

\* break_into_chunks on every 8x1 image over the indices 0..MaxIndex, on the
\* one-colour and the all-distinct blocks of every palette index, and on
\* images of several blocks
InitChunks ==
    \/ \E idx \in [1..ChunkLen -> 0..MaxIndex] :
          Start([width |-> ChunkLen, height |-> 1], Ascending(PaletteLen), idx)
    \/ \E pal \in TablePalettes(PaletteLen), c \in 0..(PaletteLen - 1), stride \in 0..1 :
          Start([width |-> ChunkLen, height |-> 1], pal,
                Pattern(ChunkLen, PaletteLen, c, stride))
    \/ \E pal \in TablePalettes(PaletteLen), h \in 1..MaxHeight :
       \E offset \in 0..MaxStride, stride \in 0..MaxStride :
          Start([width |-> 2 * ChunkLen, height |-> h], pal,
                Pattern(2 * ChunkLen * h, PaletteLen, offset, stride))

NextChunks == MainQuantize \/ MainBreak

SpecChunks == InitChunks /\ [][NextChunks]_vars

\* Palettes::new on palettes of 1..16 colours whose channels run through 0..255
InitPalette ==
    \E n \in 1..PaletteLen, base \in 0..255, stride \in 0..MaxStride :
        Start([width |-> ChunkLen, height |-> 1],
              [i \in 1..n |->
                  [r |-> (base + stride * (i - 1)) % 256,
                   g |-> (255 - base + 7 * stride * (i - 1)) % 256,
                   b |-> (2 * base + i) % 256,
                   a |-> 255]],
              Pattern(ChunkLen, n, 0, 1))

NextPalette == MainQuantize

SpecPalette == InitPalette /\ [][NextPalette]_vars

\* save_xbin about to run on an image, and on the palettes and chunks of an
\* index buffer
AtSave(img, pal, idx, result) ==
    /\ pc = "chunked"
    /\ image = img
    /\ remapped = [palette |-> pal, indexes |-> idx]
    /\ palettes = Palettes_new(pal)
    /\ indexes = result.indexes
    /\ chunks = result.chunks
    /\ file = NoFile
    /\ step = 0

\* dimensions around the largest value of the 16-bit header fields
HeaderEdge == {65535, 65536, 65537}

\* save_xbin takes the image, the palette and the chunks as separate arguments
\* and relates none of them to another (lines 180-186): its arguments are drawn
\* independently, so that Columns and Rows beyond 65535 come without a chunk
\* list of that size
InitSave ==
    \E w \in {ChunkLen, 2 * ChunkLen} \cup {ChunkLen * c : c \in HeaderEdge} :
    \E h \in 1..MaxHeight \cup HeaderEdge :
    \E pal \in TablePalettes(PaletteLen), blocks \in 1..2, stride \in 0..MaxStride :
    \E idx \in {Pattern(ChunkLen * blocks, PaletteLen, 1, stride)} :
        AtSave([width |-> w, height |-> h], pal, idx,
               break_into_chunks(Palettes_new(pal), idx))

NextSave == SaveCreate \/ SaveWrite

SpecSave == InitSave /\ [][NextSave]_vars

-----------------------------------------------------------------------------
(* Properties *)

\* break_into_chunks has returned
Reduced == pc \notin {"open", "quantized"}

Blocks == 1..Len(chunks)
Pixels == 1..ChunkLen

\* pixel i of block k as the quantizer gave it, and as break_into_chunks left it
Original(k, i) == remapped.indexes[ChunkLen * (k - 1) + i]
Final(k, i) == indexes[ChunkLen * (k - 1) + i]

\* occurrences of palette index x among the original pixels of block k
Count(k, x) == Cardinality({i \in Pixels : Original(k, i) = x})

\* bit i of the codepoint of block k, i = 1 the most significant
Bit(k, i) == (chunks[k].codepoint \div (2 ^ (ChunkLen - i))) % 2

\* squared Oklab distance between the render colours of palette indices x and y
RenderDistance(x, y) ==
    distance(srgb_to_oklab(palettes.rgba[x + 1]), srgb_to_oklab(palettes.rgba[y + 1]))

\* C1: after break_into_chunks every pixel of a block has the index bg or the
\* index fg of that block.
C1_TwoColours ==
    Reduced =>
        \A k \in Blocks, i \in Pixels : Final(k, i) \in {chunks[k].bg, chunks[k].fg}

\* C2: bit i of a block's codepoint (most significant first) is 1 exactly when
\* pixel i has the index fg after reduction, and 0 exactly when it has bg.
C2_CodepointBits ==
    Reduced =>
        \A k \in Blocks, i \in Pixels :
            /\ Bit(k, i) = 1 <=> Final(k, i) = chunks[k].fg
            /\ Bit(k, i) = 0 <=> Final(k, i) = chunks[k].bg

\* C3: an index buffer whose length is no multiple of 8 makes the run fail
\* before the output exists: no byte is written and the run never completes.
C3_InvalidBlockLength ==
    Len(remapped.indexes) % ChunkLen # 0 =>
        /\ file = NoFile
        /\ pc \notin {"writing", "done"}

\* C4: break_into_chunks returns (width / 8) * height blocks, the Columns * Rows
\* of the header, and the block data written after offset 315 is 2 * rows *
\* columns bytes long.
C4_BlockCount ==
    /\ Reduced => Len(chunks) = (image.width \div ChunkLen) * image.height
    /\ pc = "done" =>
          Len(file.bytes) - 315 = 2 * image.height * (image.width \div ChunkLen)

\* the bytes of a complete output file
CompleteFile ==
    save_xbin_write(1, image, palettes.vga, chunks)
    \o save_xbin_write(2, image, palettes.vga, chunks)
    \o save_xbin_write(3, image, palettes.vga, chunks)
    \o save_xbin_write(4, image, palettes.vga, chunks)
    \o save_xbin_write(5, image, palettes.vga, chunks)
    \o save_xbin_write(6, image, palettes.vga, chunks)
    \o save_xbin_write(7, image, palettes.vga, chunks)

\* C5: a finished run, failed or not, leaves a complete output file or no
\* output file at all.
C5_AllOrNothing ==
    pc \in {"done", "panicked"} => (~file.exists \/ file.bytes = CompleteFile)

\* C6: bg is the lowest palette index among those that occur most often in the
\* block, fg the lowest index other than bg among those that occur most often
\* among the other 15; [0,0,0,0,1,1,1,1] gives bg = 0, fg = 1, codepoint = 0x0F.
C6_DominantPair ==
    Reduced =>
        \A k \in Blocks :
            /\ \A x \in 0..(PaletteLen - 1) :
                  /\ Count(k, x) <= Count(k, chunks[k].bg)
                  /\ Count(k, x) = Count(k, chunks[k].bg) => chunks[k].bg <= x
            /\ chunks[k].fg # chunks[k].bg
            /\ \A x \in 0..(PaletteLen - 1) \ {chunks[k].bg} :
                  /\ Count(k, x) <= Count(k, chunks[k].fg)
                  /\ Count(k, x) = Count(k, chunks[k].fg) => chunks[k].fg <= x
            /\ (\A i \in Pixels : Original(k, i) = (IF i <= 4 THEN 0 ELSE 1)) =>
                  chunks[k] = [fg |-> 1, bg |-> 0, codepoint |-> 15]

\* a block [0,0,0,0,1,1,1,1] has been reduced to bg = 0, fg = 1, codepoint = 0x0F
C6_Witness ==
    /\ Reduced
    /\ \E k \in Blocks :
          /\ \A i \in Pixels : Original(k, i) = (IF i <= 4 THEN 0 ELSE 1)
          /\ chunks[k] = [fg |-> 1, bg |-> 0, codepoint |-> 15]

\* block k has the single palette index c
OneColour(k, c) == \A i \in Pixels : Original(k, i) = c

\* C7 as stated: a block of the single index c gives bg = c, fg = 0 and
\* codepoint = 0x00, so that c = 0 gives bg = fg = 0.
C7_SentinelZero ==
    Reduced =>
        \A k \in Blocks, c \in 0..(PaletteLen - 1) :
            OneColour(k, c) =>
                /\ chunks[k].bg = c
                /\ chunks[k].fg = 0
                /\ chunks[k].codepoint = 0

\* C7 as amended: a block of the single index c gives bg = c and codepoint =
\* 0x00; fg is index 0 when c is not 0 and index 1 when c is 0, so bg and fg
\* always differ.
C7_OneColourBlock ==
    Reduced =>
        \A k \in Blocks, c \in 0..(PaletteLen - 1) :
            OneColour(k, c) =>
                /\ chunks[k].bg = c
                /\ chunks[k].fg = (IF c = 0 THEN 1 ELSE 0)
                /\ chunks[k].bg # chunks[k].fg
                /\ chunks[k].codepoint = 0

\* a block of the single index 0 has been reduced to bg = 0, fg = 1
C7_Witness ==
    /\ Reduced
    /\ \E k \in Blocks :
          OneColour(k, 0) /\ chunks[k] = [fg |-> 1, bg |-> 0, codepoint |-> 0]

\* v is the integer nearest to channel * 63 / 255
Nearest(v, channel) ==
    /\ 2 * (255 * v - 63 * channel) <= 255
    /\ 2 * (63 * channel - 255 * v) <= 255

\* C8: Palettes::new returns a vga palette of exactly 16 entries, the first N
\* round(channel / 255 * 63) of the N inputs in order, the others black, every
\* channel in 0..63, and an rgba palette of exactly 16 entries with
\* rgba[i] = vga[i] * 4 on every channel, exactly.
C8_Palettes ==
    pc = "quantized" =>
        /\ Len(palettes.vga) = 16
        /\ Len(palettes.rgba) = 16
        /\ \A i \in 1..Len(remapped.palette) :
              /\ Nearest(palettes.vga[i].r, remapped.palette[i].r)
              /\ Nearest(palettes.vga[i].g, remapped.palette[i].g)
              /\ Nearest(palettes.vga[i].b, remapped.palette[i].b)
        /\ \A i \in (Len(remapped.palette) + 1)..16 :
              palettes.vga[i].r = 0 /\ palettes.vga[i].g = 0 /\ palettes.vga[i].b = 0
        /\ \A i \in 1..16 :
              /\ {palettes.vga[i].r, palettes.vga[i].g, palettes.vga[i].b} \subseteq 0..63
              /\ palettes.rgba[i].r = palettes.vga[i].r * 4
              /\ palettes.rgba[i].g = palettes.vga[i].g * 4
              /\ palettes.rgba[i].b = palettes.vga[i].b * 4

\* Palettes::new has padded a palette of fewer than 16 colours, one of them
\* with a channel of 255 that became 63 and then 252
C8_Witness ==
    /\ pc = "quantized"
    /\ Len(remapped.palette) < 16
    /\ \E i \in 1..Len(remapped.palette) :
          /\ remapped.palette[i].r = 255
          /\ palettes.vga[i].r = 63
          /\ palettes.rgba[i].r = 252

\* the unsigned 16-bit little-endian value at offset `at` of the output
Le16(at) == file.bytes[at + 1] + 256 * file.bytes[at + 2]

\* C9: for a width that is a multiple of 8, the finished output decodes to
\* width / 8 at offset 5 and to the height at offset 7, holds the palette's
\* (R, G, B) triples at offset 11 and 0..255 at offset 59, and every block's
\* second byte holds bg in the high and fg in the low nibble.
C9_HeaderRoundTrip ==
    (pc = "done" /\ image.width % ChunkLen = 0) =>
        /\ Le16(5) = image.width \div ChunkLen
        /\ Le16(7) = image.height
        /\ \A i \in 1..16 :
              /\ file.bytes[11 + 3 * (i - 1) + 1] = palettes.vga[i].r
              /\ file.bytes[11 + 3 * (i - 1) + 2] = palettes.vga[i].g
              /\ file.bytes[11 + 3 * (i - 1) + 3] = palettes.vga[i].b
        /\ \A j \in 0..255 : file.bytes[59 + j + 1] = j
        /\ \A k \in Blocks :
              /\ file.bytes[315 + 2 * k] \div 16 = chunks[k].bg
              /\ file.bytes[315 + 2 * k] % 16 = chunks[k].fg

\* C10: a pixel whose index is neither bg nor fg becomes bg when the render
\* colour of bg is at least as close to the pixel's render colour as that of
\* fg, and fg otherwise; a pixel whose index is bg or fg keeps it.
C10_Replacement ==
    Reduced =>
        \A k \in Blocks, i \in Pixels :
            IF Original(k, i) \in {chunks[k].bg, chunks[k].fg}
            THEN Final(k, i) = Original(k, i)
            ELSE Final(k, i) =
                    (IF RenderDistance(chunks[k].bg, Original(k, i))
                          <= RenderDistance(chunks[k].fg, Original(k, i))
                     THEN chunks[k].bg
                     ELSE chunks[k].fg)

=============================================================================
